---- MODULE Spec2Model ----
(***************************************************************************)
(* Model of src/vision/pose-detection.py: main() opens the camera, creates *)
(* the window, loads the pose model and then loops read -> inference ->    *)
(* annotation -> imshow -> waitKey inside try/finally.                     *)
(*                                                                         *)
(* External calls (cv2, ultralytics) are recorded in the call log `calls`; *)
(* the drawing calls made on the current frame are recorded, in order, in  *)
(* `frame`.  Python indices are zero-based: Python's s[i] is At(s, i).     *)
(* Floating point pixel coordinates are kept in tenths of a pixel and      *)
(* confidences in thousandths.  The model is called with one frame, so     *)
(* `results` holds the one Results object ultralytics returns for it.      *)
(***************************************************************************)
EXTENDS Integers, Sequences, FiniteSets, TLC

VARIABLES pc, cap, windows, model, iter, frame, results, people_count,
          exc, calls

vars == <<pc, cap, windows, model, iter, frame, results, people_count,
          exc, calls>>

\* ---------------------------------------------------------------- bounds
MaxFrames == 2      \* loop iterations explored
MaxBoxes == 2       \* longest detection list / keypoint array explored

\* ------------------------------------------------------- module constants
KEYPOINT_NAMES ==
    << "nose", "left_eye", "right_eye", "left_ear", "right_ear",
       "left_shoulder", "right_shoulder", "left_elbow", "right_elbow",
       "left_wrist", "right_wrist", "left_hip", "right_hip",
       "left_knee", "right_knee", "left_ankle", "right_ankle" >>

SKELETON ==
    << <<5, 6>>, <<5, 7>>, <<7, 9>>, <<6, 8>>, <<8, 10>>,
       <<5, 11>>, <<6, 12>>, <<11, 12>>,
       <<11, 13>>, <<13, 15>>, <<12, 14>>, <<14, 16>>,
       <<0, 1>>, <<0, 2>>, <<1, 3>>, <<2, 4>>,
       <<0, 5>>, <<0, 6>> >>

\* ------------------------------------------------------------ input sets
Classes == {0, 1}                 \* COCO class ids: 0 person, 1 bicycle
KpLens == {0, 6, 17, 18}          \* keypoints per detection row
Keys == {-1, 81, 113, 369}        \* waitKey: no key, 'Q', 'q', 'q' + 0x100

\* ------------------------------------------------------- Python helpers
IndexError == <<-9999, -9999>>
NameIndexError == "IndexError"

\* s[i] for a list of points
At(s, i) == IF i >= 0 /\ i < Len(s) THEN s[i + 1] ELSE IndexError

\* KEYPOINT_NAMES[j]
NameAt(j) ==
    IF j >= 0 /\ j < Len(KEYPOINT_NAMES) THEN KEYPOINT_NAMES[j + 1]
    ELSE NameIndexError

\* int(v) of a float held in tenths: truncation toward zero
PyInt(v) == IF v >= 0 THEN v \div 10 ELSE -((-v) \div 10)

\* f"{conf:.2f}" of a confidence held in thousandths: hundredths, rounded
Fmt2(c) == (c + 5) \div 10

\* key & 0xFF
Mask8(k) == k % 256

OrdQ == 113

\* --------------------------------------------------- what the model returns
BoxXYXY(i) == <<1004 + 500 * i, 2009 + 300 * i, 2108 + 500 * i, 4207 + 300 * i>>
BoxConf(i) == 500 + 123 * i
KpPoint(i, j) == <<37 * j - 15 + 1000 * i, 53 * j - 8 + 700 * i>>

Box(i, c) == [cls |-> c, conf |-> BoxConf(i), xyxy |-> BoxXYXY(i)]
KpRow(i, k) == [j \in 1..k |-> KpPoint(i, j - 1)]

Lists(S) == UNION {[1..n -> S] : n \in 0..MaxBoxes}

BoxesVals ==
    {[present |-> FALSE, items |-> <<>>]} \cup
    {[present |-> TRUE, items |-> [n \in 1..Len(cs) |-> Box(n - 1, cs[n])]] :
        cs \in Lists(Classes)}

KeypointsVals ==
    {[present |-> FALSE, xy |-> <<>>]} \cup
    {[present |-> TRUE, xy |-> [n \in 1..Len(ls) |-> KpRow(n - 1, ls[n])]] :
        ls \in Lists(KpLens)}

Results == [boxes : BoxesVals, keypoints : KeypointsVals]

NoResult == [boxes |-> [present |-> FALSE, items |-> <<>>],
             keypoints |-> [present |-> FALSE, xy |-> <<>>]]

\* ------------------------------------------------------ drawing commands
Cmd(kind, det, j, p1, p2, text, num) ==
    [kind |-> kind, det |-> det, j |-> j, p1 |-> p1, p2 |-> p2,
     text |-> text, num |-> num]

\* (int(x), int(y)) of a point; a failed index lookup stays visible
Pt(pt) == IF pt = IndexError THEN IndexError ELSE <<PyInt(pt[1]), PyInt(pt[2])>>

Rectangle(i, box) ==
    Cmd("rectangle", i, 0,
        <<PyInt(box.xyxy[1]), PyInt(box.xyxy[2])>>,
        <<PyInt(box.xyxy[3]), PyInt(box.xyxy[4])>>, "", 0)

Label(i, box) ==
    Cmd("label", i, 0,
        <<PyInt(box.xyxy[1]), PyInt(box.xyxy[2]) - 8>>, <<0, 0>>,
        "Person", Fmt2(box.conf))

Circle(i, j, pt) == Cmd("circle", i, j, Pt(pt), <<0, 0>>, "", 4)

JointName(i, j, pt) ==
    Cmd("name", i, j,
        IF pt = IndexError THEN IndexError
        ELSE <<PyInt(pt[1]) + 5, PyInt(pt[2]) - 5>>,
        <<0, 0>>, NameAt(j), 0)

Line(i, e, pa, pb) == Cmd("line", i, e, Pt(pa), Pt(pb), "", 2)

CountOverlay(n) ==
    Cmd("count", -1, 0, <<10, 30>>, <<0, 0>>, "People detected: ", n)

\* the drawing call could not be made: an index lookup raised IndexError
Raises(c) == c.p1 = IndexError \/ c.p2 = IndexError \/ c.text = NameIndexError

\* ------------------------------------------------------------ annotation
\* class_id = int(box.cls[0]);  if class_id != 0: continue
ClassId(box) == box.cls

\* variant: the class test is dropped
IsPerson_any(class_id) == TRUE

IsPerson(class_id) == class_id = 0

\* if i >= len(kps_all_np): continue
HasKeypoints(i, kps_all_np) == ~(i >= Len(kps_all_np))

\* kps_xy = kps_all_np[i]
RowAt(kps_all_np, i) ==
    IF i >= 0 /\ i < Len(kps_all_np) THEN kps_all_np[i + 1] ELSE <<IndexError>>

\* if j < len(KEYPOINT_NAMES)
NameInTable(j) == j < Len(KEYPOINT_NAMES)

\* variant: only the first endpoint is tested
EdgeInRange_firstOnly(a, b, kps_xy) == a < Len(kps_xy)

\* if a < len(kps_xy) and b < len(kps_xy)
EdgeInRange(a, b, kps_xy) == a < Len(kps_xy) /\ b < Len(kps_xy)

RECURSIVE DrawKeypoints(_, _, _)
DrawKeypoints(i, kps_xy, j) ==
    IF j >= Len(kps_xy) THEN <<>>
    ELSE <<Circle(i, j, At(kps_xy, j))>>
         \o (IF NameInTable(j) THEN <<JointName(i, j, At(kps_xy, j))>> ELSE <<>>)
         \o DrawKeypoints(i, kps_xy, j + 1)

RECURSIVE DrawSkeleton(_, _, _)
DrawSkeleton(i, kps_xy, e) ==
    IF e >= Len(SKELETON) THEN <<>>
    ELSE LET a == SKELETON[e + 1][1]
             b == SKELETON[e + 1][2]
         IN  (IF EdgeInRange(a, b, kps_xy)
              THEN <<Line(i, e, At(kps_xy, a), At(kps_xy, b))>>
              ELSE <<>>)
             \o DrawSkeleton(i, kps_xy, e + 1)

\* variant: the keypoint row is picked by the running person number
KeypointRowIndex_byPerson(i, people_count_now) == people_count_now - 1

\* index of the keypoint row used for the box at list position i
KeypointRowIndex(i, people_count_now) == i

\* variant: the skeleton is drawn before the keypoint markers
DrawPerson_skeletonFirst(i, box, kps_all_np, people_count_now) ==
    <<Rectangle(i, box), Label(i, box)>>
    \o (IF ~HasKeypoints(i, kps_all_np) THEN <<>>
        ELSE LET kps_xy == RowAt(kps_all_np, KeypointRowIndex(i, people_count_now))
             IN  DrawSkeleton(i, kps_xy, 0) \o DrawKeypoints(i, kps_xy, 0))

\* body of the box loop for one person
DrawPerson(i, box, kps_all_np, people_count_now) ==
    <<Rectangle(i, box), Label(i, box)>>
    \o (IF ~HasKeypoints(i, kps_all_np) THEN <<>>
        ELSE LET kps_xy == RowAt(kps_all_np, KeypointRowIndex(i, people_count_now))
             IN  DrawKeypoints(i, kps_xy, 0) \o DrawSkeleton(i, kps_xy, 0))

\* for i, box in enumerate(boxes): the loop from position i on, with
\* people_count = count and the commands drawn so far in drawn
RECURSIVE DrawBoxes(_, _, _, _, _)
DrawBoxes(boxes, kps_all_np, i, count, drawn) ==
    IF i >= Len(boxes) THEN [cmds |-> drawn, people_count |-> count]
    ELSE IF ~IsPerson(ClassId(boxes[i + 1]))
         THEN DrawBoxes(boxes, kps_all_np, i + 1, count, drawn)
         ELSE DrawBoxes(boxes, kps_all_np, i + 1, count + 1,
                        drawn \o DrawPerson(i, boxes[i + 1], kps_all_np, count + 1))

\* variant: the count is not reset for a new frame
InitialCount_carry(prev_count) == IF prev_count < 0 THEN 0 ELSE prev_count

\* people_count = 0 before the box loop
InitialCount(prev_count) == 0

\* variant: only the boxes are tested
Missing_boxesOnly(result) == ~result.boxes.present

\* if boxes is None or kps_all is None: continue
Missing(result) == ~result.boxes.present \/ ~result.keypoints.present

\* body of `for result in results` for the one result of the frame
DrawResult(result, prev_count) ==
    IF Missing(result) THEN [cmds |-> <<>>, people_count |-> prev_count]
    ELSE LET d == DrawBoxes(result.boxes.items, result.keypoints.xy, 0,
                            InitialCount(prev_count), <<>>)
         IN  [cmds |-> d.cmds \o <<CountOverlay(d.people_count)>>,
              people_count |-> d.people_count]

\* ------------------------------------------------------------- call log
Call(op, val) == [op |-> op, val |-> val]

Min(S) == CHOOSE x \in S : \A y \in S : x <= y

Init ==
    /\ pc = "start"
    /\ cap = "unopened"
    /\ windows = 0
    /\ model = FALSE
    /\ iter = 0
    /\ frame = <<>>
    /\ results = NoResult
    /\ people_count = -1          \* not bound yet
    /\ exc = FALSE
    /\ calls = <<>>

\* variant: the return after the error message is missing
Open_fallthrough ==
    /\ pc = "start"
    /\ \E opened \in BOOLEAN :
          IF opened
          THEN /\ cap' = "held"
               /\ calls' = calls \o <<Call("VideoCapture", 1)>>
               /\ pc' = "set"
          ELSE /\ cap' = "failed"
               /\ calls' = calls \o <<Call("VideoCapture", 0),
                                       Call("print_open_error", 0)>>
               /\ pc' = "set"
    /\ UNCHANGED <<windows, model, iter, frame, results, people_count, exc>>

\* cap = cv2.VideoCapture(0); if not cap.isOpened(): print(...); return
Open ==
    /\ pc = "start"
    /\ \E opened \in BOOLEAN :
          IF opened
          THEN /\ cap' = "held"
               /\ calls' = calls \o <<Call("VideoCapture", 1)>>
               /\ pc' = "set"
          ELSE /\ cap' = "failed"
               /\ calls' = calls \o <<Call("VideoCapture", 0),
                                       Call("print_open_error", 0)>>
               /\ pc' = "done"
    /\ UNCHANGED <<windows, model, iter, frame, results, people_count, exc>>

\* cap.set(width); cap.set(height)
SetProps ==
    /\ pc = "set"
    /\ calls' = calls \o <<Call("cap_set", 1280), Call("cap_set", 720)>>
    /\ pc' = "window"
    /\ UNCHANGED <<cap, windows, model, iter, frame, results, people_count, exc>>

\* cv2.namedWindow(...); cv2.resizeWindow(...)
MakeWindow ==
    /\ pc = "window"
    /\ windows' = windows + 1
    /\ calls' = calls \o <<Call("namedWindow", 0), Call("resizeWindow", 0)>>
    /\ pc' = "load"
    /\ UNCHANGED <<cap, model, iter, frame, results, people_count, exc>>

\* print("Loading..."); model = YOLO(...); print("Starting...")
LoadModel ==
    /\ pc = "load"
    /\ model' = TRUE
    /\ calls' = calls \o <<Call("print_loading", 0), Call("YOLO", 0),
                            Call("print_starting", 0)>>
    /\ pc' = "read"
    /\ UNCHANGED <<cap, windows, iter, frame, results, people_count, exc>>

\* an exception raised by namedWindow/resizeWindow or by YOLO(...), which
\* are called before the try statement is entered, leaves main() at once:
\* the finally block does not guard these lines
SetupRaise ==
    /\ pc \in {"window", "load"}
    /\ exc' = TRUE
    /\ pc' = "done"
    /\ UNCHANGED <<cap, windows, model, iter, frame, results, people_count, calls>>

\* variant: a failed read is retried instead of leaving the loop
Read_retry ==
    /\ pc = "read"
    /\ iter < MaxFrames
    /\ iter' = iter + 1
    /\ frame' = <<>>
    /\ \E ret \in BOOLEAN :
          IF ret
          THEN /\ calls' = calls \o <<Call("read", 1)>>
               /\ pc' = "infer"
          ELSE /\ calls' = calls \o <<Call("read", 0), Call("print_read_error", 0)>>
               /\ pc' = "read"
    /\ UNCHANGED <<cap, windows, model, results, people_count, exc>>

\* ret, frame = cap.read(); if not ret: print(...); break
Read ==
    /\ pc = "read"
    /\ iter < MaxFrames
    /\ iter' = iter + 1
    /\ frame' = <<>>
    /\ \E ret \in BOOLEAN :
          IF ret
          THEN /\ calls' = calls \o <<Call("read", 1)>>
               /\ pc' = "infer"
          ELSE /\ calls' = calls \o <<Call("read", 0), Call("print_read_error", 0)>>
               /\ pc' = "finally"
    /\ UNCHANGED <<cap, windows, model, results, people_count, exc>>

\* results = model(frame, verbose=False)
Infer ==
    /\ pc = "infer"
    /\ \E r \in Results : results' = r
    /\ calls' = calls \o <<Call("infer", 0)>>
    /\ pc' = "annotate"
    /\ UNCHANGED <<cap, windows, model, iter, frame, people_count, exc>>

\* for result in results: ... (drawing on the frame); the call is logged
\* with 1 when the loop ran to its end and 0 when an index lookup raised
Annotate ==
    /\ pc = "annotate"
    /\ \E d \in {DrawResult(results, people_count)} :
       LET bad == {n \in 1..Len(d.cmds) : Raises(d.cmds[n])}
       IN  /\ people_count' = d.people_count
           /\ calls' = calls \o <<Call("annotate", IF bad = {} THEN 1 ELSE 0)>>
           /\ IF bad = {}
              THEN /\ frame' = frame \o d.cmds
                   /\ exc' = exc
                   /\ pc' = "show"
              ELSE /\ frame' = frame \o SubSeq(d.cmds, 1, Min(bad) - 1)
                   /\ exc' = TRUE
                   /\ pc' = "finally"
    /\ UNCHANGED <<cap, windows, model, iter, results>>

\* cv2.imshow(window_name, frame)
Show ==
    /\ pc = "show"
    /\ calls' = calls \o <<Call("imshow", 0)>>
    /\ pc' = "poll"
    /\ UNCHANGED <<cap, windows, model, iter, frame, results, people_count, exc>>

\* variant: the comparison is made with ord('Q')
QuitKey_upper(key) == Mask8(key) = 81

\* if cv2.waitKey(1) & 0xFF == ord('q'): break
QuitKey(key) == Mask8(key) = OrdQ

Poll ==
    /\ pc = "poll"
    /\ \E key \in Keys :
          /\ calls' = calls \o <<Call("waitKey", key)>>
          /\ pc' = IF QuitKey(key) THEN "finally" ELSE "read"
    /\ UNCHANGED <<cap, windows, model, iter, frame, results, people_count, exc>>

\* an exception raised by a call inside the try body reaches the finally block
BodyRaise ==
    /\ pc \in {"read", "infer", "annotate", "show", "poll"}
    /\ exc' = TRUE
    /\ pc' = "finally"
    /\ UNCHANGED <<cap, windows, model, iter, frame, results, people_count, calls>>

\* finally: cap.release(); cv2.destroyAllWindows(); print(...)
Finally ==
    /\ pc = "finally"
    /\ cap' = "released"
    /\ windows' = 0
    /\ calls' = calls \o <<Call("release", 0), Call("destroyAllWindows", 0),
                            Call("print_stopped", 0)>>
    /\ pc' = "done"
    /\ UNCHANGED <<model, iter, frame, results, people_count, exc>>

Next ==
    \/ Open
    \/ SetProps
    \/ MakeWindow
    \/ LoadModel
    \/ SetupRaise
    \/ Read
    \/ Infer
    \/ Annotate
    \/ Show
    \/ Poll
    \/ BodyRaise
    \/ Finally

Spec == Init /\ [][Next]_vars

\* ------------------------------------------------- vocabulary of the claims
Ops(op) == {n \in 1..Len(calls) : calls[n].op = op}

Count(op) == Cardinality(Ops(op))

Last == IF calls = <<>> THEN Call("none", 0) ELSE calls[Len(calls)]

\* the frame has been annotated and not yet replaced by the next read
Annotated == pc \in {"show", "poll"}

BoxesOf == results.boxes.items

RowsOf == results.keypoints.xy

BothPresent == results.boxes.present /\ results.keypoints.present

\* zero-based list positions of the person entries of the detection list
Persons == {i \in 0..(Len(BoxesOf) - 1) : BoxesOf[i + 1].cls = 0}

Cmds(kind, i) == {n \in 1..Len(frame) : frame[n].kind = kind /\ frame[n].det = i}

Overlays == {n \in 1..Len(frame) : frame[n].kind = "count"}

CleanupOps == {"release", "destroyAllWindows", "print_stopped"}

LoopOps == {"read", "infer", "annotate", "imshow", "waitKey"}

\* ------------------------------------------------------------------ C1
\* C1: once the capture source has been opened, every way main() ends
\* (quit key, failed read, exception raised anywhere after the open) has
\* released the capture device and closed the windows.
C1_ReleasedOnEveryExit ==
    (pc = "done" /\ Count("VideoCapture") = 1 /\ calls[1].val = 1)
        => (cap = "released" /\ windows = 0)

\* ------------------------------------------------------------------ C2
\* C2: after a failed read (on any iteration) no read, inference, drawing
\* or display call follows, and the run ends with exactly one release of
\* the capture device and exactly one window-close call.
C2_ReadFailureCleanup ==
    \A p \in Ops("read") :
        calls[p].val = 0 =>
            /\ \A q \in (p + 1)..Len(calls) : calls[q].op \notin LoopOps
            /\ frame = <<>>
            /\ Count("release") <= 1
            /\ Count("destroyAllWindows") <= 1
            /\ pc \in {"finally", "done"}
            /\ pc = "done" =>
                  /\ Count("release") = 1
                  /\ Count("destroyAllWindows") = 1
                  /\ cap = "released"
                  /\ windows = 0

\* a run whose second read failed, after one complete iteration, has ended
C2_Witness ==
    /\ pc = "done"
    /\ Count("read") = 2
    /\ Count("waitKey") = 1
    /\ \E p \in Ops("read") : calls[p].val = 0
    /\ Count("release") = 1

\* ------------------------------------------------------------------ C8
\* C8: when the capture device cannot be opened the program reports it and
\* returns: no window, no model, no read, inference or display call, and
\* no release or window-close call.
C8_OpenFailureReturns ==
    cap = "failed" =>
        /\ pc = "done"
        /\ calls = <<Call("VideoCapture", 0), Call("print_open_error", 0)>>
        /\ windows = 0
        /\ model = FALSE
        /\ frame = <<>>
        /\ exc = FALSE

C8_Witness == cap = "failed" /\ pc = "done" /\ Len(calls) = 2

\* ----------------------------------------------------------------- C10
NextOp(op) ==
    CASE op = "read" -> "infer"
      [] op = "infer" -> "annotate"
      [] op = "annotate" -> "imshow"
      [] op = "imshow" -> "waitKey"
      [] op = "waitKey" -> "read"
      [] OTHER -> "none"

PcOf(op) ==
    CASE op = "infer" -> "infer"
      [] op = "annotate" -> "annotate"
      [] op = "imshow" -> "show"
      [] op = "waitKey" -> "poll"
      [] op = "read" -> "read"
      [] OTHER -> "none"

\* the poll at log position p returned the key 'q'
ReturnedQ(p) == calls[p].val % 256 = 113

\* C10: after a successful read come, in this order and once each, the
\* inference, the annotation, the display and the key poll, whatever the
\* result holds; only an exception cuts an iteration short.  The next read
\* follows a poll exactly when the poll did not return 'q', and after a
\* poll that returned 'q' there is no read, inference or display.
C10_IterationOrder ==
    /\ \A p \in 1..Len(calls) :
          LET c == calls[p] IN
          /\ (c.op \in LoopOps /\ ~(c.op = "read" /\ c.val = 0)
                /\ ~(c.op = "waitKey" /\ ReturnedQ(p)) /\ p < Len(calls))
               => \/ calls[p + 1].op = NextOp(c.op)
                  \/ exc /\ calls[p + 1].op = "release"
          /\ (c.op = "waitKey" /\ ReturnedQ(p))
               => \A q \in (p + 1)..Len(calls) : calls[q].op \in CleanupOps
          /\ (c.op \in LoopOps \ {"read"})
               => /\ NextOp(calls[p - 1].op) = c.op
                  /\ ~(calls[p - 1].op \in {"read", "annotate"} /\ calls[p - 1].val = 0)
          /\ c.op = "read"
               => \/ calls[p - 1].op = "print_starting"
                  \/ calls[p - 1].op = "waitKey" /\ ~ReturnedQ(p - 1)
    /\ (Last.op \in LoopOps /\ ~exc /\ ~(Last.op = "read" /\ Last.val = 0))
          => pc = IF Last.op = "waitKey" /\ ReturnedQ(Len(calls)) THEN "finally"
                  ELSE PcOf(NextOp(Last.op))

\* a frame whose result had no boxes was displayed and polled, the poll
\* returned no key and the next frame has been read
C10_Witness ==
    /\ pc = "infer"
    /\ iter = 2
    /\ ~results.boxes.present
    /\ ~exc
    /\ Count("imshow") = 1
    /\ Last = Call("read", 1)

\* ------------------------------------------------------------------ C3
\* C3: the people count written by the overlay of a frame is the number of
\* entries of that frame's detection list whose class id is 0, whatever
\* else the list holds and whatever was counted on earlier frames.
C3_CountIsPersons ==
    /\ \A n \in Overlays : frame[n].num = Cardinality(Persons)
    /\ (Annotated /\ BothPresent) => Overlays # {}

\* second frame, one person among two detections, shown as 1
C3_Witness ==
    /\ pc = "poll"
    /\ iter = 2
    /\ Len(BoxesOf) = 2
    /\ Cardinality(Persons) = 1
    /\ \E n \in Overlays : frame[n].num = 1

\* ------------------------------------------------------------------ C4
\* C4 as stated: with an empty box list, or with the boxes or the keypoint
\* data missing, the only drawing command of the frame is the overlay
\* "People detected: 0".
C4_EmptyOrMissingDrawsZero ==
    (Annotated /\ (~BothPresent \/ BoxesOf = <<>>))
        => frame = <<Cmd("count", -1, 0, <<10, 30>>, <<0, 0>>, "People detected: ", 0)>>

\* C4 amended: with boxes and keypoint data present and an empty box list
\* the only drawing command is the overlay "People detected: 0"; with the
\* boxes or the keypoint data missing no drawing command is issued at all.
C4_EmptyDrawsZeroMissingDrawsNothing ==
    Annotated =>
        /\ (BothPresent /\ BoxesOf = <<>>)
              => frame = <<Cmd("count", -1, 0, <<10, 30>>, <<0, 0>>, "People detected: ", 0)>>
        /\ ~BothPresent => frame = <<>>

C4_Witness ==
    /\ pc = "show"
    /\ BothPresent
    /\ BoxesOf = <<>>
    /\ Len(RowsOf) > 0
    /\ Len(frame) = 1
    /\ frame[1].kind = "count"

\* ------------------------------------------------------------------ C5
\* the person at list position i has its box and its label drawn once each
BoxAndLabel(i) ==
    /\ Cardinality(Cmds("rectangle", i)) = 1
    /\ Cardinality(Cmds("label", i)) = 1

\* nothing of the keypoints of the person at list position i is drawn
NoKeypointMarks(i) ==
    Cmds("circle", i) \cup Cmds("name", i) \cup Cmds("line", i) = {}

\* pixel of a coordinate held in tenths: the fraction is cut off
Pixel(v) == IF v >= 0 THEN v \div 10 ELSE -((-v) \div 10)

\* pixel position of keypoint j of keypoint row i (both zero-based)
PixelOf(i, j) == <<Pixel(RowsOf[i + 1][j + 1][1]), Pixel(RowsOf[i + 1][j + 1][2])>>

\* the markers of the person at list position i sit on the points of row i
MarkersFromRow(i) ==
    /\ Cardinality(Cmds("circle", i)) = Len(RowsOf[i + 1])
    /\ \A n \in Cmds("circle", i) : frame[n].p1 = PixelOf(i, frame[n].j)

NoAnnotationError ==
    /\ \A p \in Ops("annotate") : calls[p].val = 1
    /\ \A n \in 1..Len(frame) :
          /\ frame[n].p1 # <<-9999, -9999>>
          /\ frame[n].p2 # <<-9999, -9999>>
          /\ frame[n].text # "IndexError"

\* C5 as stated: a person at list position i is drawn with keypoint row i;
\* a person without keypoint data (keypoint array missing, or of length
\* <= i) is still counted, still gets box and label, and gets no marker
\* and no skeleton line; nothing raises.
C5_PersonWithoutKeypoints ==
    /\ NoAnnotationError
    /\ (Annotated /\ results.boxes.present) =>
        /\ \A i \in Persons :
              IF results.keypoints.present /\ i < Len(RowsOf)
              THEN BoxAndLabel(i) /\ MarkersFromRow(i)
              ELSE /\ BoxAndLabel(i)
                   /\ NoKeypointMarks(i)
                   /\ \E n \in Overlays : frame[n].num = Cardinality(Persons)

\* C5 amended: as stated when the keypoint array is present (row i used;
\* a person at position i >= its length is counted, boxed and labelled
\* without markers or lines); when the keypoint array is missing nothing is
\* drawn or counted on that frame.  Nothing raises.
C5_PersonBeyondKeypointArray ==
    /\ NoAnnotationError
    /\ Annotated =>
        /\ ~BothPresent => frame = <<>>
        /\ BothPresent =>
              /\ \E n \in Overlays : frame[n].num = Cardinality(Persons)
              /\ \A i \in Persons :
                    /\ BoxAndLabel(i)
                    /\ IF i < Len(RowsOf) THEN MarkersFromRow(i)
                       ELSE NoKeypointMarks(i)

\* two persons and a keypoint array of one row: the first gets its 17
\* markers, the second only its box and label
C5_Witness ==
    /\ pc = "show"
    /\ BothPresent
    /\ Len(BoxesOf) = 2
    /\ Len(RowsOf) = 1
    /\ Persons = {0, 1}
    /\ Len(RowsOf[1]) = 17
    /\ Cardinality(Cmds("circle", 0)) = 17
    /\ Cardinality(Cmds("rectangle", 1)) = 1
    /\ Cmds("circle", 1) = {}

\* ------------------------------------------------------------------ C6
\* C6: every drawing command other than the count overlay belongs to an
\* entry of the detection list whose class id is 0; an entry with another
\* class id gets no box, label, marker, joint name or line.
C6_OnlyPersonsDrawn ==
    \A n \in 1..Len(frame) :
        frame[n].kind # "count" => frame[n].det \in Persons

\* a non-person with a full keypoint row ahead of a person
C6_Witness ==
    /\ pc = "show"
    /\ BothPresent
    /\ Len(BoxesOf) = 2
    /\ Persons = {1}
    /\ Len(RowsOf) = 2
    /\ Len(RowsOf[1]) = 17
    /\ Len(RowsOf[2]) = 17
    /\ Cardinality(Cmds("line", 1)) = 18

\* ------------------------------------------------------------------ C7
Phase(kind) ==
    CASE kind = "rectangle" -> 1
      [] kind = "label" -> 2
      [] kind = "circle" -> 3
      [] kind = "name" -> 3
      [] kind = "line" -> 4
      [] kind = "count" -> 5

\* command c is issued before command d in the order the claim describes
Before(c, d) ==
    \/ d.kind = "count" /\ c.kind # "count"
    \/ /\ c.kind # "count"
       /\ d.kind # "count"
       /\ \/ c.det < d.det
          \/ c.det = d.det /\ Phase(c.kind) < Phase(d.kind)
          \/ c.det = d.det /\ c.kind = d.kind /\ c.j < d.j
          \/ c.det = d.det /\ c.kind = "circle" /\ d.kind = "name" /\ c.j = d.j
          \/ c.det = d.det /\ c.kind = "name" /\ d.kind = "circle" /\ c.j < d.j

InOrder ==
    /\ \A n \in 1..(Len(frame) - 1) : Before(frame[n], frame[n + 1])
    /\ \A n \in 1..Len(frame) :
          /\ frame[n].kind = "rectangle"
                => n < Len(frame) /\ frame[n + 1].kind = "label"
                   /\ frame[n + 1].det = frame[n].det
          /\ frame[n].kind = "label"
                => n > 1 /\ frame[n - 1].kind = "rectangle"
          /\ (frame[n].kind # "count" /\ (n = 1 \/ frame[n - 1].det # frame[n].det))
                => frame[n].kind = "rectangle"

OverlayLastOnce ==
    /\ Len(frame) >= 1
    /\ Overlays = {Len(frame)}

\* C7 as stated: per person in list order box, label, keypoint markers in
\* index order, skeleton lines in table order; persons do not interleave;
\* the count overlay is issued exactly once, as the last command.
C7_DrawOrderOverlayOnce ==
    Annotated => (InOrder /\ OverlayLastOnce)

\* C7 amended: the same order; the overlay is issued exactly once, last,
\* when the result has both boxes and keypoint data, and no command at all
\* is issued when either is missing.
C7_DrawOrderOverlayWhenPresent ==
    Annotated =>
        /\ InOrder
        /\ BothPresent => OverlayLastOnce
        /\ ~BothPresent => frame = <<>>

\* two persons with keypoints and lines each
C7_Witness ==
    /\ pc = "show"
    /\ BothPresent
    /\ Persons = {0, 1}
    /\ Cmds("line", 0) # {}
    /\ Cmds("circle", 1) # {}
    /\ Cmds("line", 1) # {}
    /\ Overlays = {Len(frame)}

\* ------------------------------------------------------------------ C9
\* C9: a person whose keypoint row has k points gets exactly the markers
\* 0..k-1, a joint name exactly for the indices below 17 (the name of the
\* table at that index), and the line of skeleton edge (a, b) exactly when
\* a < k and b < k, drawn between points a and b; no lookup fails.
C9_KeypointBounds ==
    /\ NoAnnotationError
    /\ Annotated =>
        /\ BothPresent =>
              \A i \in Persons :
                  i < Len(RowsOf) =>
                      LET k == Len(RowsOf[i + 1]) IN
                      /\ Cardinality(Cmds("circle", i)) = k
                      /\ {frame[n].j : n \in Cmds("circle", i)} = 0..(k - 1)
                      /\ Cardinality(Cmds("name", i)) = IF k < 17 THEN k ELSE 17
                      /\ \A n \in Cmds("name", i) :
                            /\ frame[n].j \in 0..16
                            /\ frame[n].j < k
                            /\ frame[n].text = KEYPOINT_NAMES[frame[n].j + 1]
                      /\ {frame[n].j : n \in Cmds("line", i)}
                            = {e \in 0..17 : SKELETON[e + 1][1] < k /\ SKELETON[e + 1][2] < k}
                      /\ Cardinality(Cmds("line", i))
                            = Cardinality({frame[n].j : n \in Cmds("line", i)})
                      /\ \A n \in Cmds("line", i) :
                            /\ frame[n].p1 = PixelOf(i, SKELETON[frame[n].j + 1][1])
                            /\ frame[n].p2 = PixelOf(i, SKELETON[frame[n].j + 1][2])

\* a person with 6 keypoints (five lines) and a person with 18
C9_Witness ==
    /\ pc = "show"
    /\ BothPresent
    /\ Persons = {0, 1}
    /\ Len(RowsOf) = 2
    /\ Len(RowsOf[1]) = 6
    /\ Len(RowsOf[2]) = 18
    /\ Cardinality(Cmds("line", 0)) = 5
    /\ Cardinality(Cmds("circle", 1)) = 18
    /\ Cardinality(Cmds("name", 1)) = 17

====
